---- MODULE Spec2Model ----
(***************************************************************************)
(* A model of anthemav_serial: the asynchronous RS232 control protocol     *)
(* (protocol.py), the asynchronous and the synchronous amplifier           *)
(* controllers, the frame formatter and the response parser (__init__.py). *)
(*                                                                         *)
(* Text is a sequence of one-character strings.  A Python value that the   *)
(* code passes around is a record [type, text]: type "bytes" for the       *)
(* result of .encode('ascii'), "str" for a str, "None" for None.           *)
(* Time is an integer clock; one tick is half a second.                    *)
(*                                                                         *)
(* The decorators ensure_connected and locked_coro are modelled by the     *)
(* wrapper each of them defines; the bodies are modelled as written,       *)
(* including the coroutines they create without awaiting them.             *)
(***************************************************************************)
EXTENDS Integers, Sequences, FiniteSets, TLC

\* ---------------------------------------------------------------- bounds
NumCallers == 2
MaxCalls == 2
MaxTime == 3
MaxPending == 1
MaxStream == 3

\* ------------------------------------------------------------- constants
MAX_VOLUME == 100
\* config.get('timeout', DEFAULT_TIMEOUT): 1.0 s, in ticks
Timeout == 2
\* config['min_time_between_commands'], in ticks
MinTimeBetweenCommands == 1
\* config['delay_after_power_on'], in ticks
DelayAfterPowerOn == 3
\* the "1" of time.time() - 1, in ticks
OneSecond == 2

Callers == 1..NumCallers

\* ------------------------------------------------------------ pure code
None == [type |-> "None", text |-> <<>>]

DigitChar == <<"0", "1", "2", "3", "4", "5", "6", "7", "8", "9">>

RECURSIVE nat_str(_)
nat_str(n) ==
    IF n < 10 THEN <<DigitChar[n + 1]>>
    ELSE nat_str(n \div 10) \o <<DigitChar[(n % 10) + 1]>>

\* str(int), as str.format renders an int argument
str(n) == IF n < 0 THEN <<"-">> \o nat_str(0 - n) ELSE nat_str(n)

\* the placeholders of a template and the argument each one names
PlaceholderKey == ("{zone}" :> "zone") @@ ("{volume}" :> "volume")

\* config['commands'] of the dialect in use (the power_on template is the one
\* behind the frames send compares with: "P1P1\n", "P2P1\n")
Commands ==
    [ power_on    |-> <<"P", "{zone}", "P", "1">>,
      zone_status |-> <<"P", "{zone}", "?">>,
      set_volume  |-> <<"P", "{zone}", "V", "{volume}">> ]

\* command.format(**args)
RECURSIVE format(_, _)
format(template, args) ==
    IF template = <<>> THEN <<>>
    ELSE LET h == Head(template)
         IN  (IF h \in DOMAIN PlaceholderKey
              THEN str(args[PlaceholderKey[h]])
              ELSE <<h>>) \o format(Tail(template), args)

\* a mutant of _format: the marker is not appended
_format_without_eol(e, format_code, args) ==
    IF format_code \notin DOMAIN Commands THEN None
    ELSE [type |-> "bytes", text |-> format(Commands[format_code], args)]

\* _format(protocol_type, format_code, args), for a dialect whose eol is e
_format(e, format_code, args) ==
    IF format_code \notin DOMAIN Commands THEN None
    ELSE [type |-> "bytes", text |-> format(Commands[format_code] \o e, args)]

Min(a, b) == IF a < b THEN a ELSE b
Max(a, b) == IF a > b THEN a ELSE b

\* the clamp of _set_volume_cmd
clamp_volume(volume) == Max(0, Min(volume, MAX_VOLUME))

_set_volume_cmd(e, zone, volume) ==
    _format(e, "set_volume", [zone |-> zone, volume |-> clamp_volume(volume)])

\* the list send compares the request with: three str objects
PowerOnFrames ==
    { [type |-> "str", text |-> <<"P", "1", "P", "1", "\n">>],
      [type |-> "str", text |-> <<"P", "2", "P", "1", "\n">>],
      [type |-> "str", text |-> <<"P", "1", "P", "3", "\n">>] }

\* request in [ "P1P1\n", "P2P1\n", "P1P3\n" ]: a bytes object equals no str
is_power_on_request(request) == request \in PowerOnFrames

\* _throttle_requests: the time the coroutine would sleep, were it run
throttle_delay(t, last) ==
    LET delta_since_last_send == t - last
    IN  IF delta_since_last_send < 0 THEN 0 - delta_since_last_send
        ELSE IF delta_since_last_send < MinTimeBetweenCommands
             THEN Min(Max(0, MinTimeBetweenCommands - delta_since_last_send),
                      MinTimeBetweenCommands)
             ELSE 0

\* the places where eol occurs in data
eol_at(data, e) ==
    { i \in 1..(Len(data) - Len(e) + 1) : SubSeq(data, i, i + Len(e) - 1) = e }

\* eol in data
eol_in(data, e) == eol_at(data, e) # {}

\* data.split(eol)[0].decode('ascii')
first_line(data, e) ==
    LET i == CHOOSE k \in eol_at(data, e) : \A j \in eol_at(data, e) : k <= j
    IN  [type |-> "str", text |-> SubSeq(data, 1, i - 1)]


\* ---------------------------------------------------------------- state
VARIABLES
    now,          \* time.time(), in ticks
    eol,          \* config['command_eol'], as text
    connected,    \* self._connected (asyncio.Event)
    lockHolder,   \* the caller inside "with (await lock)", 0 when the lock is free
    lockWaiters,  \* the callers waiting in lock.acquire(), first come first
    lockDepth,    \* how many times the holder of the RLock has acquired it
    pc,           \* where each caller's call is
    req,          \* the call each caller made
    cmd,          \* the frame the call formatted
    waitStart,    \* when the caller's current asyncio.wait_for began
    readStart,    \* when the caller's _read_unlocked began
    readBase,     \* the stream bytes dequeued before the caller's read began
    data,         \* the bytearray of the caller's _read_unlocked
    nchunks,      \* the chunks the caller's read has dequeued, counted up to MaxStream
    outcome,      \* what the call gave its caller
    io,           \* the transport and queue operations the call performed
    wseq,         \* the number of the write the call made, 0 when none
    last_send,    \* self._last_send
    q,            \* self._q (asyncio.Queue), a sequence of chunks
    putTasks,     \* the self._q.put(data) tasks scheduled and not yet run
    nwrites,      \* the number of frames written to the transport
    lastWrite,    \* when the last frame was written, and whether it was power_on
    ncalls,       \* the number of calls made
    callno,       \* the number of the caller's call in the order of issue
    timed_out,    \* the number of calls made when a read first timed out, 0 if none did
    stream,       \* a reply stream the device is to send (the line reader's input)
    emitted,      \* how many bytes of stream the device has sent
    lost,         \* the number of calls made when connection_lost ran, -1 if it did not
    parsed,       \* a call of _handle_message: its text and what it gave
    rs232_defaults,  \* DEVICE_CONFIG[amp_series]['rs232_defaults'], shared by all
    serial_config    \* the last open: its overrides and the serial_config it used

lockVars == <<lockHolder, lockWaiters, lockDepth>>
callVars == <<pc, req, cmd, waitStart, outcome, io, wseq, ncalls, callno, timed_out>>
readVars == <<readStart, readBase, data, nchunks>>
wireVars == <<last_send, nwrites, lastWrite>>
inVars == <<q, putTasks>>
devVars == <<stream, emitted>>
auxVars == <<lost, parsed, rs232_defaults, serial_config>>
vars == <<now, eol, auxVars, connected, lockVars, callVars, readVars, wireVars, inVars,
          devVars>>

NoReq == [op |-> "none", name |-> "none", args |-> [zone |-> 0, volume |-> 0]]
NoOutcome == [kind |-> "none", text |-> <<>>, conn |-> FALSE]
NoWrite == [at |-> 0, power_on |-> FALSE]
NoParse == [kind |-> "none", text |-> <<>>, fields |-> <<>>]

\* rs232_defaults of the series, as loaded
SeriesDefaults == [baudrate |-> 9600, bytesize |-> 8, parity |-> "N", timeout |-> 1]
\* no controller was opened yet
NoConfig == [opened |-> FALSE, by |-> "none", overrides |-> <<>>, config |-> <<>>]

Zones == {1}
Volumes == {0 - 5, MAX_VOLUME + 50}
CommandNames == {"power_on", "zone_status", "bogus"}

\* the calls of the controller's public interface the model makes
Requests ==
    { [op |-> "run_command", name |-> n, args |-> [zone |-> z, volume |-> 0]] :
        n \in CommandNames, z \in Zones }
    \cup { [op |-> o, name |-> "set_volume", args |-> [zone |-> z, volume |-> v]] :
        o \in {"run_command", "set_volume"}, z \in Zones, v \in Volumes }

ReadReq == [op |-> "read", name |-> "none", args |-> [zone |-> 0, volume |-> 0]]

RECURSIVE bytes_in(_)
bytes_in(chunks) ==
    IF chunks = <<>> THEN 0 ELSE Len(Head(chunks)) + bytes_in(Tail(chunks))

\* the stream bytes that left the queue
Consumed == emitted - bytes_in(putTasks) - bytes_in(q)

\* RS232ControlProtocol.__init__ and get_async_amp_controller
InitWith(e, s) ==
    /\ now = 0
    /\ eol = e
    /\ connected = FALSE
    /\ lockHolder = 0
    /\ lockWaiters = <<>>
    /\ lockDepth = 0
    /\ pc = [c \in Callers |-> "idle"]
    /\ req = [c \in Callers |-> NoReq]
    /\ cmd = [c \in Callers |-> None]
    /\ waitStart = [c \in Callers |-> 0]
    /\ readStart = [c \in Callers |-> 0]
    /\ readBase = [c \in Callers |-> 0]
    /\ data = [c \in Callers |-> <<>>]
    /\ nchunks = [c \in Callers |-> 0]
    /\ outcome = [c \in Callers |-> NoOutcome]
    /\ io = [c \in Callers |-> {}]
    /\ wseq = [c \in Callers |-> 0]
    /\ last_send = now - OneSecond
    /\ q = <<>>
    /\ putTasks = <<>>
    /\ nwrites = 0
    /\ lastWrite = NoWrite
    /\ ncalls = 0
    /\ callno = [c \in Callers |-> 0]
    /\ timed_out = 0
    /\ stream = s
    /\ emitted = 0
    /\ lost = 0 - 1
    /\ parsed = NoParse
    /\ rs232_defaults = SeriesDefaults
    /\ serial_config = NoConfig

Init == InitWith(<<"\n">>, <<>>)

\* ------------------------------------------------------ the lock, the call

\* no ended call is left with its result: the task that awaited the call
\* goes on with the result in the step of the event loop in which the call
\* ended, before any other task or callback runs
results_taken == \A c \in Callers : pc[c] # "done"

\* callers are interchangeable: the next call is made by the first idle one
next_caller(c) == pc[c] = "idle" /\ \A d \in Callers : d < c => pc[d] # "idle"

\* the exit of "with (await lock)": lock.release()
released(c) == IF lockHolder = c THEN 0 ELSE lockHolder

\* the body of run_command / set_volume up to the await in ensure_connected's
\* wrapper: the frame is formatted, then asyncio.wait_for(self._connected.wait())
entered(c, r) ==
    /\ cmd' = [cmd EXCEPT ![c] =
                 IF r.op = "run_command" THEN _format(eol, r.name, r.args)
                 ELSE _set_volume_cmd(eol, r.args.zone, r.args.volume)]
    /\ waitStart' = [waitStart EXCEPT ![c] = now]

\* a caller calls run_command or set_volume: locked_coro's wrapper takes the lock
\* when it is free and nobody waits for it, and queues up for it otherwise
Call(c, r) ==
    /\ results_taken
    /\ next_caller(c)
    /\ ncalls < MaxCalls
    /\ ncalls' = ncalls + 1
    /\ callno' = [callno EXCEPT ![c] = ncalls + 1]
    /\ timed_out' = timed_out
    /\ req' = [req EXCEPT ![c] = r]
    /\ outcome' = [outcome EXCEPT ![c] = NoOutcome]
    /\ io' = [io EXCEPT ![c] = {}]
    /\ wseq' = [wseq EXCEPT ![c] = 0]
    /\ IF lockHolder = 0 /\ lockWaiters = <<>>
       THEN /\ lockHolder' = c
            /\ lockWaiters' = lockWaiters
            /\ pc' = [pc EXCEPT ![c] = "wait_conn"]
            /\ entered(c, r)
       ELSE /\ lockWaiters' = Append(lockWaiters, c)
            /\ lockHolder' = lockHolder
            /\ pc' = [pc EXCEPT ![c] = "wait_lock"]
            /\ UNCHANGED <<cmd, waitStart>>
    /\ UNCHANGED <<now, eol, auxVars, connected, lockDepth, readVars, wireVars, inVars, devVars>>

\* the first waiter takes the released lock
Acquire(c) ==
    /\ results_taken
    /\ pc[c] = "wait_lock"
    /\ lockHolder = 0
    /\ lockWaiters # <<>>
    /\ Head(lockWaiters) = c
    /\ lockHolder' = c
    /\ lockWaiters' = Tail(lockWaiters)
    /\ pc' = [pc EXCEPT ![c] = "wait_conn"]
    /\ entered(c, req[c])
    /\ UNCHANGED <<now, eol, auxVars, connected, lockDepth, req, outcome, io, wseq, ncalls,
                   callno, timed_out, readVars, wireVars, inVars, devVars>>

\* a caller calls the protocol's read(): no lock, straight to ensure_connected
ReadCall(c) ==
    /\ results_taken
    /\ next_caller(c)
    /\ ncalls < MaxCalls
    /\ ncalls' = ncalls + 1
    /\ callno' = [callno EXCEPT ![c] = ncalls + 1]
    /\ timed_out' = timed_out
    /\ req' = [req EXCEPT ![c] = ReadReq]
    /\ outcome' = [outcome EXCEPT ![c] = NoOutcome]
    /\ io' = [io EXCEPT ![c] = {}]
    /\ wseq' = [wseq EXCEPT ![c] = 0]
    /\ cmd' = [cmd EXCEPT ![c] = None]
    /\ waitStart' = [waitStart EXCEPT ![c] = now]
    /\ pc' = [pc EXCEPT ![c] = "wait_conn"]
    /\ UNCHANGED <<now, eol, auxVars, connected, lockVars, readVars, wireVars, inVars, devVars>>


\* ------------------------------------------------- ensure_connected, send

\* what the protocol hands back for a call that is not to read a reply
plain(k, ok) == [kind |-> k, text |-> <<>>, conn |-> ok]

\* what the public operation gives its caller once self._protocol.send, or
\* self.run_command, gave ret: run_command returns it; zone_status hands it to
\* _handle_message, whose pattern.match takes a str only: TypeError; the
\* other operations drop it
async_result(r, ret) ==
    IF r.op = "run_command" THEN ret
    ELSE IF r.op = "zone_status" THEN "TypeError"
    ELSE "None"

\* the body of send(request) for the request the caller formatted.  The
\* coroutine of self._throttle_requests() is created and never awaited, so
\* nothing sleeps; the buffers are reset, the queue is drained (the put tasks
\* not yet run are not), the time is stamped and the frame written.  A request
\* of None makes transport.write raise TypeError after the resets and the
\* stamp.  send returns the coroutine of self._read_unlocked() without
\* awaiting it: run_command returns that coroutine, set_volume and the
\* operations that call run_command drop it, zone_status fails on it; either
\* way the wrapper of locked_coro releases the lock.
send(c) ==
    /\ io' = [io EXCEPT ![c] =
                {"reset_output_buffer", "reset_input_buffer", "drain_queue", "stamp"}
                \cup (IF cmd[c] = None THEN {} ELSE {"write"})]
    /\ q' = <<>>
    /\ putTasks' = putTasks
    /\ IF cmd[c] = None
       THEN /\ last_send' = now
            /\ UNCHANGED <<nwrites, lastWrite, wseq>>
            /\ outcome' = [outcome EXCEPT ![c] = plain("TypeError", TRUE)]
            /\ pc' = [pc EXCEPT ![c] = "done"]
       ELSE /\ last_send' = IF is_power_on_request(cmd[c])
                            THEN now + DelayAfterPowerOn
                            ELSE now
            /\ nwrites' = nwrites + 1
            /\ lastWrite' = [at |-> now,
                             power_on |-> cmd[c] = _format(eol, "power_on", req[c].args)]
            /\ wseq' = [wseq EXCEPT ![c] = nwrites + 1]
            /\ IF req[c].op = "run_command"
               THEN /\ outcome' = [outcome EXCEPT ![c] = plain("coroutine", TRUE)]
                    /\ pc' = [pc EXCEPT ![c] = "returned"]
               ELSE /\ outcome' = [outcome EXCEPT ![c] =
                                      plain(async_result(req[c], "coroutine"), TRUE)]
                    /\ pc' = [pc EXCEPT ![c] = "done"]
    /\ lockHolder' = released(c)
    /\ waitStart' = [waitStart EXCEPT ![c] = 0]
    /\ UNCHANGED <<now, eol, auxVars, connected, lockWaiters, lockDepth, req, cmd, ncalls,
                   callno, timed_out, readVars, devVars>>

\* the wrapper of ensure_connected: the connected event is set within the
\* timeout and the wrapped send runs
Proceed(c) ==
    /\ results_taken
    /\ pc[c] = "wait_conn"
    /\ req[c].op # "read"
    /\ connected
    /\ send(c)

\* ensure_connected around read(): read returns the coroutine of
\* self._read_unlocked() without awaiting it
ReadProceed(c) ==
    /\ results_taken
    /\ pc[c] = "wait_conn"
    /\ req[c].op = "read"
    /\ connected
    /\ outcome' = [outcome EXCEPT ![c] = plain("coroutine", TRUE)]
    /\ pc' = [pc EXCEPT ![c] = "returned"]
    /\ waitStart' = [waitStart EXCEPT ![c] = 0]
    /\ UNCHANGED <<now, eol, auxVars, connected, lockVars, req, cmd, io, wseq,
                   ncalls, callno, timed_out, readVars, wireVars, inVars, devVars>>

\* a mutant of ConnTimeout: the wrapper falls through to the method
ConnTimeoutFallsThrough(c) ==
    /\ results_taken
    /\ pc[c] = "wait_conn"
    /\ ~connected
    /\ now - waitStart[c] >= Timeout
    /\ send(c)

\* the wrapper of ensure_connected: asyncio.wait_for raises after the timeout,
\* the bare except logs and returns None; the method is not called.  The
\* wrapper of locked_coro then releases the lock and the caller gets None
ConnTimeout(c) ==
    /\ results_taken
    /\ pc[c] = "wait_conn"
    /\ ~connected
    /\ now - waitStart[c] >= Timeout
    /\ outcome' = [outcome EXCEPT ![c] = plain(async_result(req[c], "None"), FALSE)]
    /\ pc' = [pc EXCEPT ![c] = "done"]
    /\ lockHolder' = released(c)
    /\ waitStart' = [waitStart EXCEPT ![c] = 0]
    /\ UNCHANGED <<now, eol, auxVars, connected, lockWaiters, lockDepth, req, cmd, io, wseq,
                   ncalls, callno, timed_out, readVars, wireVars, inVars, devVars>>

\* ------------------------------------------------------- _read_unlocked

\* the caller awaits the coroutine it was given: _read_unlocked starts with an
\* empty bytearray and its first asyncio.wait_for(self._q.get(), timeout)
AwaitReply(c) ==
    /\ results_taken
    /\ pc[c] = "returned"
    /\ pc' = [pc EXCEPT ![c] = "reading"]
    /\ data' = [data EXCEPT ![c] = <<>>]
    /\ nchunks' = [nchunks EXCEPT ![c] = 0]
    /\ waitStart' = [waitStart EXCEPT ![c] = now]
    /\ readStart' = [readStart EXCEPT ![c] = now]
    /\ readBase' = [readBase EXCEPT ![c] = IF stream = <<>> THEN 0 ELSE Consumed]
    /\ UNCHANGED <<now, eol, auxVars, connected, lockVars, req, cmd, outcome, io, wseq,
                   ncalls, callno, timed_out, wireVars, inVars, devVars>>

\* a mutant of eol_seen: the marker is looked for in the new chunk alone
eol_seen_in_chunk(buffer, chunk) == eol_in(chunk, eol)

\* "if eol in data", data being the whole bytearray read so far
eol_seen(buffer, chunk) == eol_in(buffer \o chunk, eol)

\* the last MaxStream bytes of a bytearray that holds no marker: the bytes
\* left out can be part of no marker found later, and the model keeps no more
kept(buffer) ==
    IF Len(buffer) <= MaxStream THEN buffer
    ELSE SubSeq(buffer, Len(buffer) - MaxStream + 1, Len(buffer))

\* one turn of the loop: a chunk is dequeued and appended; with the marker in
\* the data the first line is returned, else a new wait_for begins
ReadChunk(c) ==
    /\ results_taken
    /\ pc[c] = "reading"
    /\ q # <<>>
    /\ q' = Tail(q)
    /\ nchunks' = [nchunks EXCEPT ![c] = Min(nchunks[c] + 1, MaxStream)]
    /\ IF eol_seen(data[c], Head(q))
       THEN /\ outcome' = [outcome EXCEPT ![c] =
                  [kind |-> "line", text |-> first_line(data[c] \o Head(q), eol).text,
                   conn |-> TRUE]]
            /\ pc' = [pc EXCEPT ![c] = "done"]
            /\ data' = [data EXCEPT ![c] = <<>>]
            /\ waitStart' = [waitStart EXCEPT ![c] = 0]
            /\ readStart' = [readStart EXCEPT ![c] = 0]
       ELSE /\ data' = [data EXCEPT ![c] = kept(data[c] \o Head(q))]
            /\ waitStart' = [waitStart EXCEPT ![c] = now]
            /\ UNCHANGED <<outcome, pc, readStart>>
    /\ UNCHANGED <<now, eol, auxVars, connected, lockVars, req, cmd, io, wseq, ncalls,
                   callno, timed_out, readBase, wireVars, putTasks, devVars>>

\* asyncio.wait_for(self._q.get(), timeout) raises TimeoutError; the handler's
\* LOG.error names request, which _read_unlocked does not have: NameError
ReadTimeout(c) ==
    /\ results_taken
    /\ pc[c] = "reading"
    /\ q = <<>>
    /\ now - waitStart[c] >= Timeout
    /\ outcome' = [outcome EXCEPT ![c] = plain("NameError", TRUE)]
    /\ pc' = [pc EXCEPT ![c] = "done"]
    /\ data' = [data EXCEPT ![c] = <<>>]
    /\ waitStart' = [waitStart EXCEPT ![c] = 0]
    /\ readStart' = [readStart EXCEPT ![c] = 0]
    /\ timed_out' = IF timed_out = 0 THEN ncalls ELSE timed_out
    /\ UNCHANGED <<now, eol, auxVars, connected, lockVars, req, cmd, io, wseq,
                   ncalls, callno, readBase, nchunks, wireVars, inVars, devVars>>

\* the caller is done with the call (a coroutine it never awaits is dropped)
Finish(c) ==
    /\ pc[c] \in {"returned", "done"}
    /\ pc' = [pc EXCEPT ![c] = "idle"]
    /\ req' = [req EXCEPT ![c] = NoReq]
    /\ cmd' = [cmd EXCEPT ![c] = None]
    /\ outcome' = [outcome EXCEPT ![c] = NoOutcome]
    /\ io' = [io EXCEPT ![c] = {}]
    /\ wseq' = [wseq EXCEPT ![c] = 0]
    /\ waitStart' = [waitStart EXCEPT ![c] = 0]
    /\ readStart' = [readStart EXCEPT ![c] = 0]
    /\ readBase' = [readBase EXCEPT ![c] = 0]
    /\ nchunks' = [nchunks EXCEPT ![c] = 0]
    /\ callno' = [callno EXCEPT ![c] = 0]
    /\ UNCHANGED <<now, eol, auxVars, connected, lockVars, ncalls, timed_out, data, wireVars,
                   inVars, devVars>>

\* ------------------------------------------------ transport and device

\* connection_made
ConnectionMade ==
    /\ results_taken
    /\ ~connected
    /\ connected' = TRUE
    /\ UNCHANGED <<now, eol, auxVars, lockVars, callVars, readVars, wireVars, inVars, devVars>>

\* the byte a device sends in answer to the frames written so far
Tag == DigitChar[nwrites + 1]

\* data_received(data): a task that will put the chunk into the queue is
\* scheduled
data_received(chunk) ==
    /\ results_taken
    /\ putTasks' = Append(putTasks, chunk)
    /\ UNCHANGED <<now, eol, auxVars, connected, lockVars, callVars, readVars, wireVars, q>>

\* the device answers the last frame with a line, which the transport reads
\* from the port and hands to data_received in one chunk
DeviceReply ==
    /\ connected
    /\ nwrites > 0
    /\ Len(putTasks) + Len(q) < MaxPending
    /\ data_received(<<Tag>> \o eol)
    /\ UNCHANGED devVars

\* the device sends the next n bytes of its stream, which the transport hands
\* to data_received in one chunk
DeviceStream(n) ==
    /\ connected
    /\ emitted + n <= Len(stream)
    /\ data_received(SubSeq(stream, emitted + 1, emitted + n))
    /\ emitted' = emitted + n
    /\ stream' = stream

\* a mutant of RunPut: the task scheduled last runs first
RunPutLast ==
    /\ results_taken
    /\ putTasks # <<>>
    /\ q' = Append(q, putTasks[Len(putTasks)])
    /\ putTasks' = SubSeq(putTasks, 1, Len(putTasks) - 1)
    /\ UNCHANGED <<now, eol, auxVars, connected, lockVars, callVars, readVars, wireVars,
                   devVars>>

\* the oldest scheduled self._q.put(data) runs
RunPut ==
    /\ results_taken
    /\ putTasks # <<>>
    /\ q' = Append(q, Head(putTasks))
    /\ putTasks' = Tail(putTasks)
    /\ UNCHANGED <<now, eol, auxVars, connected, lockVars, callVars, readVars, wireVars,
                   devVars>>

\* the event loop has run what is ready, no wait is overdue and every caller
\* whose call returned has taken the result
loop_idle ==
    /\ putTasks = <<>>
    /\ ~(lockHolder = 0 /\ lockWaiters # <<>>)
    /\ \A c \in Callers :
          /\ pc[c] \notin {"returned", "done"}
          /\ pc[c] = "wait_conn" => (~connected /\ now - waitStart[c] < Timeout)
          /\ pc[c] = "reading" => (q = <<>> /\ now - waitStart[c] < Timeout)

\* time passes, once the event loop is idle
Tick ==
    /\ now < MaxTime
    /\ loop_idle
    /\ now' = now + 1
    /\ UNCHANGED <<eol, auxVars, connected, lockVars, callVars, readVars, wireVars, inVars,
                   devVars>>

Next ==
    \/ \E c \in Callers, r \in Requests : Call(c, r)
    \/ \E c \in Callers : ReadCall(c)
    \/ \E c \in Callers : Acquire(c)
    \/ \E c \in Callers : Proceed(c)
    \/ \E c \in Callers : ReadProceed(c)
    \/ \E c \in Callers : ConnTimeout(c)
    \/ \E c \in Callers : AwaitReply(c)
    \/ \E c \in Callers : ReadChunk(c)
    \/ \E c \in Callers : ReadTimeout(c)
    \/ \E c \in Callers : Finish(c)
    \/ ConnectionMade
    \/ DeviceReply
    \/ RunPut
    \/ Tick

Spec == Init /\ [][Next]_vars


\* ------------------------------------------------------ the line reader

\* the dialects' end-of-line markers and the bytes a device may send
EolChoices == {<<"\n">>, <<"\r", "\n">>}
ReadAlphabet == {"a", "\r", "\n"}
Streams == UNION {[1..n -> ReadAlphabet] : n \in 1..MaxStream}

\* the protocol after construction, for any marker and any reply stream
InitRead == \E e \in EolChoices, s \in Streams : InitWith(e, s)

\* one reader calls read() and awaits the line while the device's stream
\* arrives in chunks of any size
NextRead ==
    \/ ReadCall(1)
    \/ ReadProceed(1)
    \/ ConnTimeout(1)
    \/ AwaitReply(1)
    \/ ReadChunk(1)
    \/ ReadTimeout(1)
    \/ Finish(1)
    \/ ConnectionMade
    \/ \E n \in 1..MaxStream : DeviceStream(n)
    \/ RunPut
    \/ Tick

SpecRead == InitRead /\ [][NextRead]_vars

\* --------------------------------------------------- the port is closed

\* a mutant of connection_lost: the connected event is cleared
connection_lost_clears ==
    /\ results_taken
    /\ connected
    /\ lost < 0
    /\ lost' = ncalls
    /\ connected' = FALSE
    /\ UNCHANGED <<now, eol, parsed, rs232_defaults, serial_config, lockVars, callVars,
                   readVars, wireVars, inVars, devVars>>

\* connection_lost(exc): the transport tells the protocol that the port is
\* closed; the protocol logs it
connection_lost ==
    /\ results_taken
    /\ connected
    /\ lost < 0
    /\ lost' = ncalls
    /\ connected' = connected
    /\ UNCHANGED <<now, eol, parsed, rs232_defaults, serial_config, lockVars, callVars,
                   readVars, wireVars, inVars, devVars>>

\* one caller sends commands on a port that opens, or not, and closes, or not
NextConn ==
    \/ \E r \in Requests : Call(1, r)
    \/ Proceed(1)
    \/ ConnTimeout(1)
    \/ Finish(1)
    \/ ConnectionMade
    \/ connection_lost
    \/ Tick

SpecConn == Init /\ [][NextConn]_vars

\* ------------------------------------------- the gate along a call chain

\* the operations of AmpControlAsync whose body awaits self.run_command, each
\* with the command it names (the dialect of the model has templates for
\* power_on and zone_status only; _format gives None for the other names)
HelperRequests ==
    { [op |-> h.op, name |-> h.name, args |-> [zone |-> z, volume |-> 0]] :
        h \in { [op |-> "set_power",   name |-> "power_on"],
                [op |-> "set_power",   name |-> "power_off"],
                [op |-> "set_mute",    name |-> "mute_on"],
                [op |-> "set_source",  name |-> "set_source"],
                [op |-> "volume_up",   name |-> "volume_up"],
                [op |-> "volume_down", name |-> "volume_down"],
                [op |-> "zone_status", name |-> "zone_status"] },
        z \in Zones }

\* every call of the public interface of AmpControlAsync the model makes
AsyncRequests == Requests \cup HelperRequests

\* a mutant of locked_coro: set_power is decorated as well
locked_coro_on_set_power(method) == method \in {"run_command", "set_volume", "set_power"}

\* the methods decorated with @locked_coro
locked_coro(method) == method \in {"run_command", "set_volume"}

\* the call self.run_command(cmd, args) in the body of an operation
run_command_of(r) == [op |-> "run_command", name |-> r.name, args |-> r.args]

\* the methods of the controller a call enters, the outermost first, down to
\* the one that awaits self._protocol.send
call_chain(r) ==
    IF r \in HelperRequests THEN <<r.op, "run_command">> ELSE <<r.op>>

\* the "await lock" a call comes to, in the order it comes to them
gates(r) == SelectSeq(call_chain(r), locked_coro)

\* the request whose frame the innermost method formats
innermost(r) == IF r \in HelperRequests THEN run_command_of(r) ELSE r

\* the call runs on from a wrapper of locked_coro that took the lock, with the
\* "await lock" still ahead of it: none, and the innermost method formats its
\* frame and awaits send; one more, and lock.acquire() finds the lock taken
\* (asyncio.Lock does not know its owner) and the call waits in line
gate_passed(c, r, waiters) ==
    /\ lockHolder' = c
    /\ IF Len(gates(r)) > 1
       THEN /\ lockWaiters' = Append(waiters, c)
            /\ pc' = [pc EXCEPT ![c] = "wait_lock"]
            /\ UNCHANGED <<cmd, waitStart>>
       ELSE /\ lockWaiters' = waiters
            /\ pc' = [pc EXCEPT ![c] = "wait_conn"]
            /\ entered(c, innermost(r))

\* a caller calls a public operation: the call runs down its chain to the
\* first "await lock", takes the lock when it is free and nobody waits for
\* it, and waits in line otherwise
GateCall(c, r) ==
    /\ results_taken
    /\ next_caller(c)
    /\ ncalls < MaxCalls
    /\ ncalls' = ncalls + 1
    /\ callno' = [callno EXCEPT ![c] = ncalls + 1]
    /\ timed_out' = timed_out
    /\ req' = [req EXCEPT ![c] = r]
    /\ outcome' = [outcome EXCEPT ![c] = NoOutcome]
    /\ io' = [io EXCEPT ![c] = {}]
    /\ wseq' = [wseq EXCEPT ![c] = 0]
    /\ IF gates(r) = <<>>
       THEN /\ pc' = [pc EXCEPT ![c] = "wait_conn"]
            /\ entered(c, innermost(r))
            /\ UNCHANGED <<lockHolder, lockWaiters>>
       ELSE IF lockHolder = 0 /\ lockWaiters = <<>>
       THEN gate_passed(c, r, lockWaiters)
       ELSE /\ lockWaiters' = Append(lockWaiters, c)
            /\ lockHolder' = lockHolder
            /\ pc' = [pc EXCEPT ![c] = "wait_lock"]
            /\ UNCHANGED <<cmd, waitStart>>
    /\ UNCHANGED <<now, eol, auxVars, connected, lockDepth, readVars, wireVars, inVars, devVars>>

\* the first in line takes the released lock and its call runs on
GateAcquire(c) ==
    /\ results_taken
    /\ pc[c] = "wait_lock"
    /\ lockHolder = 0
    /\ lockWaiters # <<>>
    /\ Head(lockWaiters) = c
    /\ gate_passed(c, req[c], Tail(lockWaiters))
    /\ UNCHANGED <<now, eol, auxVars, connected, lockDepth, req, outcome, io, wseq, ncalls,
                   callno, timed_out, readVars, wireVars, inVars, devVars>>

\* callers call every public operation of the controller on a port that
\* opens, or not; a coroutine run_command gave is dropped
NextGate ==
    \/ \E c \in Callers, r \in AsyncRequests : GateCall(c, r)
    \/ \E c \in Callers : GateAcquire(c)
    \/ \E c \in Callers : Proceed(c)
    \/ \E c \in Callers : ConnTimeout(c)
    \/ \E c \in Callers : Finish(c)
    \/ ConnectionMade
    \/ Tick

SpecGate == Init /\ [][NextGate]_vars

\* ------------------------------------------------- time without an end

\* a device that is not answering sends a byte that is no marker, which the
\* transport hands to data_received
DeviceNoise ==
    /\ connected
    /\ Len(putTasks) + Len(q) < MaxPending
    /\ data_received(<<"a">>)
    /\ UNCHANGED devVars

\* a time stamp read against a clock whose origin moved forward by one tick
rebased(t) == Max(t - 1, 0 - MaxTime)

\* time passes, once the event loop is idle: the same step as Tick, with the
\* origin of the clock moved instead of its reading, so that time has no end
TickLive ==
    /\ loop_idle
    /\ waitStart' = [c \in Callers |->
          IF pc[c] \in {"wait_conn", "reading"} THEN rebased(waitStart[c])
          ELSE waitStart[c]]
    /\ readStart' = [c \in Callers |->
          IF pc[c] = "reading" THEN rebased(readStart[c]) ELSE readStart[c]]
    /\ last_send' = rebased(last_send)
    /\ lastWrite' = [lastWrite EXCEPT !.at = IF nwrites = 0 THEN 0 ELSE rebased(@)]
    /\ UNCHANGED <<now, eol, auxVars, connected, lockVars, pc, req, cmd, outcome, io, wseq,
                   ncalls, callno, timed_out, readBase, data, nchunks, nwrites,
                   inVars, devVars>>

NextLive ==
    \/ \E c \in Callers, r \in Requests : Call(c, r)
    \/ \E c \in Callers : Acquire(c)
    \/ \E c \in Callers : Proceed(c)
    \/ \E c \in Callers : ConnTimeout(c)
    \/ \E c \in Callers : AwaitReply(c)
    \/ \E c \in Callers : ReadChunk(c)
    \/ \E c \in Callers : ReadTimeout(c)
    \/ \E c \in Callers : Finish(c)
    \/ ConnectionMade
    \/ DeviceReply
    \/ DeviceNoise
    \/ RunPut
    \/ TickLive

\* the event loop runs every task that is ready and time does not stop; the
\* callers, the port and the device are free to act or not
LoopFairness ==
    /\ \A c \in Callers :
          /\ WF_vars(Acquire(c))
          /\ WF_vars(Proceed(c))
          /\ WF_vars(ConnTimeout(c))
          /\ WF_vars(AwaitReply(c))
          /\ WF_vars(ReadChunk(c))
          /\ WF_vars(ReadTimeout(c))
          /\ WF_vars(Finish(c))
    /\ WF_vars(RunPut)
    /\ WF_vars(TickLive)

SpecLive == Init /\ [][NextLive]_vars /\ LoopFairness

\* ------------------------------------------- the synchronous controller

\* the public operations the threads call: run_command and set_volume work on
\* the port themselves, set_power and zone_status call self.run_command
SyncRequests ==
    { [op |-> "run_command", name |-> n, args |-> [zone |-> z, volume |-> 0]] :
        n \in {"zone_status", "bogus"}, z \in Zones }
    \cup { [op |-> "set_volume", name |-> "set_volume",
             args |-> [zone |-> z, volume |-> MAX_VOLUME + 50]] : z \in Zones }
    \cup { [op |-> "set_power", name |-> "power_on",
             args |-> [zone |-> z, volume |-> 0]] : z \in Zones }
    \cup { [op |-> "zone_status", name |-> "zone_status",
             args |-> [zone |-> z, volume |-> 0]] : z \in Zones }

\* the operations whose body calls self.run_command
calls_run_command(r) == r.op \in {"set_power", "zone_status"}

\* a mutant of rlock_acquire: a lock that its holder cannot take again
lock_acquire(t) ==
    /\ lockHolder = 0
    /\ lockHolder' = t
    /\ lockDepth' = lockDepth + 1

\* "with lock" of synchronized's wrapper, lock being an RLock: a thread takes
\* it when it is free or its own
rlock_acquire(t) ==
    /\ lockHolder \in {0, t}
    /\ lockHolder' = t
    /\ lockDepth' = lockDepth + 1

\* a return or an exception leaves every "with lock" the thread is in
rlock_leave ==
    /\ lockHolder' = 0
    /\ lockDepth' = 0

\* config['command_eol'], a str (it is passed to str() and to .encode('ascii'))
command_eol == [type |-> "str", text |-> eol]

\* result[-len_eol:], a bytearray
last_bytes(result, n) ==
    [type |-> "bytes",
     text |-> IF Len(result) <= n THEN result
              ELSE SubSeq(result, Len(result) - n + 1, Len(result))]

\* len(result) > skip and result[-len_eol:] == eol
at_eol(result, skip) ==
    Len(result) > skip /\ last_bytes(result, Len(command_eol.text)) = command_eol

\* what the threads' steps leave alone
syncFrame ==
    <<now, eol, auxVars, connected, lockWaiters, waitStart, readStart, readBase, nchunks,
      last_send, lastWrite, inVars, timed_out, stream>>

\* a thread calls a public operation and comes to its wrapper's "with lock"
SyncCall(t, r) ==
    /\ next_caller(t)
    /\ ncalls < MaxCalls
    /\ ncalls' = ncalls + 1
    /\ callno' = [callno EXCEPT ![t] = ncalls + 1]
    /\ req' = [req EXCEPT ![t] = r]
    /\ pc' = [pc EXCEPT ![t] = "s_lock"]
    /\ UNCHANGED <<syncFrame, lockHolder, lockDepth, cmd, data, outcome, io, wseq,
                   nwrites, emitted>>

\* the frame run_command or set_volume formats
sync_frame(r) ==
    IF r.op = "set_volume" THEN _set_volume_cmd(eol, r.args.zone, r.args.volume)
    ELSE _format(eol, r.name, r.args)

\* the thread takes the lock and enters the operation
SyncEnter(t) ==
    /\ pc[t] = "s_lock"
    /\ rlock_acquire(t)
    /\ IF calls_run_command(req[t])
       THEN /\ pc' = [pc EXCEPT ![t] = "s_body"]
            /\ cmd' = cmd
       ELSE /\ pc' = [pc EXCEPT ![t] = "s_cmd"]
            /\ cmd' = [cmd EXCEPT ![t] = sync_frame(req[t])]
    /\ UNCHANGED <<syncFrame, req, data, outcome, io, wseq, nwrites, ncalls, callno,
                   emitted>>

\* set_power / zone_status call self.run_command, whose wrapper takes the lock
\* again
SyncReenter(t) ==
    /\ pc[t] = "s_body"
    /\ rlock_acquire(t)
    /\ pc' = [pc EXCEPT ![t] = "s_cmd"]
    /\ cmd' = [cmd EXCEPT ![t] = sync_frame(req[t])]
    /\ UNCHANGED <<syncFrame, req, data, outcome, io, wseq, nwrites, ncalls, callno,
                   emitted>>

\* _process_request up to the loop: both buffers are reset (the bytes that had
\* arrived, any number of those to come, are gone), the frame is written and
\* flushed; write(None) raises TypeError
SyncSend(t) ==
    /\ pc[t] = "s_cmd"
    /\ \E k \in emitted..Len(stream) : emitted' = k
    /\ data' = [data EXCEPT ![t] = <<>>]
    /\ IF cmd[t] = None
       THEN /\ io' = [io EXCEPT ![t] = {"reset_output_buffer", "reset_input_buffer"}]
            /\ outcome' = [outcome EXCEPT ![t] = plain("TypeError", TRUE)]
            /\ pc' = [pc EXCEPT ![t] = "done"]
            /\ rlock_leave
            /\ UNCHANGED <<nwrites, wseq>>
       ELSE /\ io' = [io EXCEPT ![t] =
                        {"reset_output_buffer", "reset_input_buffer", "write"}]
            /\ nwrites' = nwrites + 1
            /\ wseq' = [wseq EXCEPT ![t] = nwrites + 1]
            /\ pc' = [pc EXCEPT ![t] = "s_read"]
            /\ UNCHANGED <<outcome, lockHolder, lockDepth>>
    /\ UNCHANGED <<syncFrame, req, cmd, ncalls, callno>>

\* what the operation returns once _process_request returned ret
sync_result(r, ret) ==
    [kind |-> IF r.op = "run_command" THEN "line"
              ELSE IF r.op = "zone_status" THEN "dict" ELSE "None",
     text |-> ret, conn |-> TRUE]

\* one turn of the loop: self._port.read(1) yields the next byte, or nothing
\* when none came in time; nothing raises SerialTimeoutException, a byte is
\* appended and, at the marker, the loop ends and the bytes are returned
SyncReadByte(t) ==
    /\ pc[t] = "s_read"
    /\ \E got \in BOOLEAN :
          IF got /\ emitted < Len(stream)
          THEN /\ emitted' = emitted + 1
               /\ data' = [data EXCEPT ![t] = data[t] \o <<stream[emitted + 1]>>]
               /\ IF at_eol(data'[t], 0)
                  THEN /\ outcome' = [outcome EXCEPT ![t] = sync_result(req[t], data'[t])]
                       /\ pc' = [pc EXCEPT ![t] = "done"]
                       /\ rlock_leave
                  ELSE UNCHANGED <<outcome, pc, lockHolder, lockDepth>>
          ELSE /\ outcome' = [outcome EXCEPT ![t] = plain("SerialTimeoutException", TRUE)]
               /\ pc' = [pc EXCEPT ![t] = "done"]
               /\ rlock_leave
               /\ UNCHANGED <<data, emitted>>
    /\ UNCHANGED <<syncFrame, req, cmd, io, wseq, nwrites, ncalls, callno>>

\* the thread is done with the call
SyncFinish(t) ==
    /\ pc[t] = "done"
    /\ pc' = [pc EXCEPT ![t] = "idle"]
    /\ req' = [req EXCEPT ![t] = NoReq]
    /\ cmd' = [cmd EXCEPT ![t] = None]
    /\ outcome' = [outcome EXCEPT ![t] = NoOutcome]
    /\ io' = [io EXCEPT ![t] = {}]
    /\ wseq' = [wseq EXCEPT ![t] = 0]
    /\ callno' = [callno EXCEPT ![t] = 0]
    /\ data' = [data EXCEPT ![t] = <<>>]
    /\ UNCHANGED <<syncFrame, lockHolder, lockDepth, nwrites, ncalls, emitted>>

\* the bytes a device answers with: lines of one character
ReplyBytes == [i \in 1..MaxStream |-> IF i % 2 = 0 THEN "\n" ELSE "a"]

\* get_amp_controller: one controller that several threads share
InitSync == InitWith(<<"\n">>, ReplyBytes)

NextSync ==
    \/ \E t \in Callers, r \in SyncRequests : SyncCall(t, r)
    \/ \E t \in Callers : SyncEnter(t)
    \/ \E t \in Callers : SyncReenter(t)
    \/ \E t \in Callers : SyncSend(t)
    \/ \E t \in Callers : SyncReadByte(t)
    \/ \E t \in Callers : SyncFinish(t)

SpecSync == InitSync /\ [][NextSync]_vars

\* get_amp_controller: one controller, for any marker and any bytes the
\* device is to send
InitSyncRead == \E e \in EolChoices, s \in Streams : InitWith(e, s)

\* one thread calls the controller
NextSyncRead ==
    \/ \E r \in SyncRequests : SyncCall(1, r)
    \/ SyncEnter(1)
    \/ SyncReenter(1)
    \/ SyncSend(1)
    \/ SyncReadByte(1)
    \/ SyncFinish(1)

SpecSyncRead == InitSyncRead /\ [][NextSyncRead]_vars

\* ------------------------------------------------ parsing and formatting

\* an element of a response pattern: the characters it accepts at its place,
\* and the name of the group it captures into ("" for a literal)
Lit(ch) == [name |-> "", chars |-> {ch}]
Grp(n, chs) == [name |-> n, chars |-> chs]

\* config['responses'] of a dialect, in the order of the configuration, and
\* config['boolean_fields']
Responses ==
    << [id |-> "mute_status",
        re |-> <<Lit("M"), Grp("mute", {"0", "1", "5"})>>],
       [id |-> "zone_value",
        re |-> <<Grp("kind", {"M", "V"}), Grp("value", {"0", "1", "5"})>>] >>
BooleanFields == {"mute"}

\* RS232_RESPONSE_PATTERNS[protocol_type]: the patterns, compiled
CompiledPatterns == [i \in DOMAIN Responses |-> [type |-> "Pattern", re |-> Responses[i].re]]

\* pattern.match(text) succeeds: the pattern matches at the start of text
re_match(re, text) ==
    /\ Len(text) >= Len(re)
    /\ \A i \in 1..Len(re) : text[i] \in re[i].chars

\* result.groupdict()
groupdict(re, text) ==
    [n \in {re[i].name : i \in {j \in 1..Len(re) : re[j].name # ""}} |->
        <<text[CHOOSE i \in 1..Len(re) : re[i].name = n]>>]

PyTrue == [type |-> "bool", text |-> <<"True">>]
PyFalse == [type |-> "bool", text |-> <<"False">>]
PyStr(t) == [type |-> "str", text |-> t]

\* _pattern_to_dictionary(protocol_type, pattern, source_text); pattern.match
\* on an object that is no compiled pattern raises AttributeError
_pattern_to_dictionary(pattern, source_text) ==
    IF pattern.type # "Pattern"
    THEN [kind |-> "AttributeError", text |-> source_text, fields |-> <<>>]
    ELSE IF ~re_match(pattern.re, source_text)
    THEN [kind |-> "None", text |-> source_text, fields |-> <<>>]
    ELSE LET d == groupdict(pattern.re, source_text)
         IN  [kind |-> "dict", text |-> source_text,
              fields |-> [k \in DOMAIN d |->
                 IF k \in BooleanFields
                 THEN (IF d[k] = <<"0">> THEN PyFalse
                       ELSE IF d[k] = <<"1">> THEN PyTrue ELSE PyStr(d[k]))
                 ELSE PyStr(d[k])]]

\* _handle_message(protocol_type, text): the first pattern that matches; what
\* it hands to _pattern_to_dictionary is match, the match object
_handle_message(text) ==
    LET matching == {i \in DOMAIN CompiledPatterns : re_match(CompiledPatterns[i].re, text)}
    IN  IF matching = {}
        THEN [kind |-> "None", text |-> text, fields |-> <<>>]
        ELSE LET i == CHOOSE k \in matching : \A j \in matching : k <= j
                 match == [type |-> "Match", re |-> CompiledPatterns[i].re]
             IN  _pattern_to_dictionary(match, text)

\* the reply lines given to the parser
ParseAlphabet == {"M", "V", "0", "1", "5"}
Lines == UNION {[1..n -> ParseAlphabet] : n \in 1..MaxStream}

\* what the steps of this section leave alone
pureFrame ==
    <<now, eol, connected, lockVars, callVars, readVars, wireVars, inVars, devVars, lost>>

\* a reply line is given to _handle_message
ParseCall(line) ==
    /\ parsed.kind = "none"
    /\ parsed' = [kind |-> "called", text |-> line, fields |-> <<>>]
    /\ UNCHANGED <<pureFrame, rs232_defaults, serial_config>>

\* _handle_message runs
HandleMessage ==
    /\ parsed.kind = "called"
    /\ parsed' = _handle_message(parsed.text)
    /\ UNCHANGED <<pureFrame, rs232_defaults, serial_config>>

NextParse ==
    \/ \E line \in Lines : ParseCall(line)
    \/ HandleMessage

SpecParse == Init /\ [][NextParse]_vars

\* the names and arguments _format is called with
FormatNames == {"power_on", "zone_status", "set_volume", "bogus"}
FormatZones == {1, 2, 3}
FormatVolumes == {0 - 5, 0, 7, 42, MAX_VOLUME, MAX_VOLUME + 50}

\* _format(protocol_type, format_code, args) is called and returns
FormatCall(format_code, args) ==
    /\ req' = [req EXCEPT ![1] = [op |-> "_format", name |-> format_code, args |-> args]]
    /\ cmd' = [cmd EXCEPT ![1] = _format(eol, format_code, args)]
    /\ UNCHANGED <<now, eol, auxVars, connected, lockVars, pc, waitStart, outcome, io,
                   wseq, ncalls, callno, timed_out, readVars, wireVars, inVars, devVars>>

\* a dialect with either marker
InitFormat == \E e \in EolChoices : InitWith(e, <<>>)

NextFormat ==
    \E n \in FormatNames, z \in FormatZones, v \in FormatVolumes :
        FormatCall(n, [zone |-> z, volume |-> v])

SpecFormat == InitFormat /\ [][NextFormat]_vars

\* ------------------------------------------------- opening a controller

\* the serial settings a client may override
SerialSettings ==
    [baudrate : {9600, 19200, 57600, 115200}, bytesize : {5, 6, 7, 8},
     parity : {"N", "E", "O"}, timeout : {1, 2, 5}]

\* serial_config_overrides: any of the settings, or none
Overrides ==
    {[k \in K |-> f[k]] : K \in SUBSET DOMAIN SeriesDefaults, f \in SerialSettings}

\* dict.update
update(d, o) ==
    [k \in DOMAIN d \cup DOMAIN o |-> IF k \in DOMAIN o THEN o[k] ELSE d[k]]

\* serial_config = config['rs232_defaults'] names the dict of DEVICE_CONFIG,
\* and serial_config.update(overrides) changes that dict; an empty overrides
\* is false
merge_serial_config(o, entry) ==
    /\ rs232_defaults' = IF DOMAIN o # {} THEN update(rs232_defaults, o)
                         ELSE rs232_defaults
    /\ serial_config' = [opened |-> TRUE, by |-> entry, overrides |-> o,
                         config |-> rs232_defaults']

\* get_amp_controller(amp_series, port_url, serial_config_overrides)
get_amp_controller(o) ==
    /\ merge_serial_config(o, "get_amp_controller")
    /\ UNCHANGED <<pureFrame, parsed>>

\* get_async_amp_controller(amp_series, port_url, loop, serial_config_overrides)
get_async_amp_controller(o) ==
    /\ merge_serial_config(o, "get_async_amp_controller")
    /\ UNCHANGED <<pureFrame, parsed>>

NextOpen ==
    \/ \E o \in Overrides : get_amp_controller(o)
    \/ \E o \in Overrides : get_async_amp_controller(o)

SpecOpen == Init /\ [][NextOpen]_vars

\* ---------------------------------------------------------------- claims

TagNo(ch) == CHOOSE n \in 0..9 : DigitChar[n + 1] = ch

\* C1: while a caller awaits the reply to the frame its run_command wrote, no
\* other frame has been written to the transport after it.
C1_SingleFlight ==
    \A c \in Callers :
        (pc[c] = "reading" /\ req[c].op = "run_command") => nwrites = wseq[c]

\* C2: the frame written after a power_on frame is written no earlier than
\* delay_after_power_on after it.
C2_PowerOnCooldown ==
    [][(nwrites' = nwrites + 1 /\ nwrites >= 1 /\ lastWrite.power_on)
          => lastWrite'.at >= lastWrite.at + DelayAfterPowerOn]_vars

\* C3: the write times of two consecutive frames differ by at least
\* min_time_between_commands.
C3_Throttle ==
    [][(nwrites' = nwrites + 1 /\ nwrites >= 1)
          => lastWrite'.at - lastWrite.at >= MinTimeBetweenCommands]_vars

\* C4: the line returned for a command holds only bytes that arrived after the
\* command's frame was written.
C4_NoStaleInput ==
    \A c \in Callers :
        (pc[c] = "done" /\ req[c].op = "run_command" /\ outcome[c].kind = "line")
            => \A i \in 1..Len(outcome[c].text) : TagNo(outcome[c].text[i]) >= wseq[c]

\* C5: a call whose wait for the connection ends while the connection is not
\* made writes nothing, resets no buffer, leaves the queue and the last-send
\* time as they are.
C5_NoIoWithoutConnection ==
    [][\A c \in Callers :
          (pc[c] = "wait_conn" /\ ~connected /\ pc'[c] # "wait_conn")
              => /\ io'[c] = {}
                 /\ q' = q
                 /\ putTasks' = putTasks
                 /\ last_send' = last_send
                 /\ nwrites' = nwrites
                 /\ lastWrite' = lastWrite]_vars

\* a send gave up waiting for a connection that was never made
C5_Witness ==
    \E c \in Callers :
        /\ pc[c] = "done"
        /\ req[c].op \in {"run_command", "set_volume"}
        /\ ~outcome[c].conn
        /\ ~connected

\* C6: a run_command on a connection that is not made within the timeout ends
\* with a ConnectionTimeout error for its caller.
C6_ConnectionTimeoutError ==
    \A c \in Callers :
        (pc[c] = "done" /\ req[c].op = "run_command" /\ ~outcome[c].conn)
            => outcome[c].kind = "ConnectionTimeout"

\* C7: a run_command for a name the dialect does not have fails with
\* UnknownCommand, and performs no operation on the transport or the queue.
C7_UnknownCommandRejected ==
    \A c \in Callers :
        (pc[c] = "done" /\ req[c].op = "run_command"
                        /\ req[c].name \notin DOMAIN Commands)
            => /\ outcome[c].kind = "UnknownCommand"
               /\ io[c] = {}

\* C8: every set_volume frame written carries max(0, min(requested, MAX_VOLUME)).
C8_VolumeCeiling ==
    \A c \in Callers :
        (wseq[c] > 0 /\ req[c].name = "set_volume")
            => cmd[c].text =
                 <<"P">> \o str(req[c].args.zone) \o <<"V">>
                 \o str(Max(0, Min(req[c].args.volume, MAX_VOLUME))) \o eol

\* the bytes of the stream the caller's read has dequeued so far
Dequeued(c) == SubSeq(stream, readBase[c] + 1, Consumed)

\* C9: a read returns exactly the text before the first marker of the stream
\* it reads, however the stream is cut into chunks, and it returns as soon as
\* the bytes dequeued hold the marker; what followed the marker in the buffer
\* belongs to no later read.
C9_FramingIgnoresChunking ==
    \A c \in Callers :
        /\ pc[c] = "reading" => ~eol_in(Dequeued(c), eol)
        /\ (pc[c] = "done" /\ outcome[c].kind = "line")
              => \E k \in 0..Len(Dequeued(c)) :
                    /\ SubSeq(Dequeued(c), k + 1, k + Len(eol)) = eol
                    /\ \A j \in 0..(k - 1) :
                          SubSeq(Dequeued(c), j + 1, j + Len(eol)) # eol
                    /\ outcome[c].text = SubSeq(Dequeued(c), 1, k)

\* a read returned the line of a stream that arrived byte by byte, its
\* two-byte marker cut in two
C9_Witness ==
    \E c \in Callers :
        /\ pc[c] = "done"
        /\ outcome[c].kind = "line"
        /\ eol = <<"\r", "\n">>
        /\ stream = <<"a", "\r", "\n">>
        /\ outcome[c].text = <<"a">>
        /\ nchunks[c] = 3

\* C10: a read that has framed no line is over within timeout of its start.
C10_SingleDeadline ==
    \A c \in Callers : pc[c] = "reading" => now - readStart[c] <= Timeout

\* C11: a call that is not inside the gated section does not hold the gate, the
\* gate is free when no call is inside it, and a command issued after a read
\* timed out is written and the line it receives is the reply to its own frame.
C11_GateReleasedOnEveryExit ==
    /\ \A c \in Callers : pc[c] # "wait_conn" => lockHolder # c
    /\ (\A c \in Callers : pc[c] \notin {"wait_lock", "wait_conn"}) => lockHolder = 0
    /\ \A c \in Callers :
          (/\ pc[c] = "done"
           /\ req[c].op = "run_command"
           /\ req[c].name \in DOMAIN Commands
           /\ timed_out > 0
           /\ callno[c] > timed_out)
              => /\ wseq[c] > 0
                 /\ outcome[c].kind = "line"
                       => \A i \in 1..Len(outcome[c].text) :
                             TagNo(outcome[c].text[i]) >= wseq[c]

\* the calls that go through the gate
gated(c) == req[c].op \in {"run_command", "set_volume"}

\* C12: frames are written in the order in which their callers requested the
\* gate, and no command consumes its reply line while a command issued before
\* it is still reading for its own.
C12_IssuanceOrder ==
    \A c, d \in Callers :
        (gated(c) /\ gated(d) /\ callno[d] < callno[c])
            => /\ wseq[c] > 0 => pc[d] \notin {"wait_lock", "wait_conn"}
               /\ (wseq[c] > 0 /\ wseq[d] > 0) => wseq[d] < wseq[c]
               /\ (pc[c] = "done" /\ outcome[c].kind = "line") => pc[d] # "reading"

\* C13: every run_command call, once issued, comes to an end: its caller gets
\* a result or an error.
C13_EveryCallCompletes ==
    \A c \in Callers :
        (req[c].op = "run_command"
            /\ pc[c] \in {"wait_lock", "wait_conn", "returned", "reading"})
          ~> (pc[c] \in {"done", "idle"})

\* C14: a thread between taking the lock and the end of its request is the
\* holder of the lock, so no two reset-write-read cycles overlap on the port;
\* and an operation that calls run_command while it holds the lock can take
\* the lock again.
C14_SyncSerialized ==
    /\ \A t \in Callers : pc[t] \in {"s_body", "s_cmd", "s_read"} => lockHolder = t
    /\ \A t, u \in Callers :
          (t # u /\ pc[t] = "s_read") => pc[u] \notin {"s_body", "s_cmd", "s_read"}
    /\ \A t \in Callers : pc[t] = "s_body" => ENABLED SyncReenter(t)

\* zone_status, inside the run_command it called, reads the reply while
\* another thread waits for the lock
C14_Witness ==
    \E t, u \in Callers :
        /\ pc[t] = "s_read"
        /\ req[t].op = "zone_status"
        /\ lockDepth = 2
        /\ Len(data[t]) >= 1
        /\ pc[u] = "s_lock"

\* the bytes end with the marker
ends_with(bytes, e) ==
    Len(bytes) >= Len(e) /\ SubSeq(bytes, Len(bytes) - Len(e) + 1, Len(bytes)) = e

\* C15: the read loop is over as soon as the bytes received end with the
\* marker, and the timeout is raised only when no marker was received.
C15_SyncFraming ==
    \A t \in Callers :
        /\ pc[t] = "s_read" => ~ends_with(data[t], eol)
        /\ (pc[t] = "done" /\ outcome[t].kind = "SerialTimeoutException")
              => ~eol_in(data[t], eol)

\* the field map the first matching pattern gives for a line
first_match_fields(text) ==
    LET i == CHOOSE k \in DOMAIN Responses :
                /\ re_match(Responses[k].re, text)
                /\ \A j \in 1..(k - 1) : ~re_match(Responses[j].re, text)
        d == groupdict(Responses[i].re, text)
    IN  [k \in DOMAIN d |->
            IF k \in BooleanFields /\ d[k] = <<"0">> THEN PyFalse
            ELSE IF k \in BooleanFields /\ d[k] = <<"1">> THEN PyTrue
            ELSE PyStr(d[k])]

\* C16: for a line that some pattern matches the parser returns the field map
\* of the first matching pattern, its boolean fields converted from "0" and
\* "1" and every other capture left as the string it is.
C16_ParseFirstMatch ==
    (/\ parsed.kind \notin {"none", "called"}
     /\ \E k \in DOMAIN Responses : re_match(Responses[k].re, parsed.text))
        => /\ parsed.kind = "dict"
           /\ parsed.fields = first_match_fields(parsed.text)

\* the frame of a command, written out: the template's text with the
\* arguments in the places of its placeholders
frame_text(name, args) ==
    IF name = "power_on" THEN <<"P">> \o str(args.zone) \o <<"P", "1">>
    ELSE IF name = "zone_status" THEN <<"P">> \o str(args.zone) \o <<"?">>
    ELSE <<"P">> \o str(args.zone) \o <<"V">> \o str(args.volume)

\* C17: the frame formatted for a command of the dialect is bytes: the
\* template with its placeholders replaced by the arguments, then the marker;
\* no placeholder and no brace is left in it.
C17_FrameFormat ==
    (req[1].op = "_format" /\ req[1].name \in DOMAIN Commands)
        => /\ cmd[1].type = "bytes"
           /\ cmd[1].text = frame_text(req[1].name, req[1].args) \o eol
           /\ \A i \in 1..Len(cmd[1].text) :
                 /\ cmd[1].text[i] \notin DOMAIN PlaceholderKey
                 /\ cmd[1].text[i] \notin {"{", "}"}

\* set_volume for zone 2 and volume 150 was formatted in a dialect whose
\* marker is CR LF
C17_Witness ==
    /\ req[1].op = "_format"
    /\ req[1].name = "set_volume"
    /\ eol = <<"\r", "\n">>
    /\ cmd[1].text = <<"P", "2", "V", "1", "5", "0", "\r", "\n">>

\* C18: opening a controller leaves the series' serial defaults as they were
\* loaded, and an open without overrides uses those defaults.
C18_DefaultsUnchanged ==
    /\ rs232_defaults = SeriesDefaults
    /\ (serial_config.opened /\ DOMAIN serial_config.overrides = {})
          => serial_config.config = SeriesDefaults

\* the bytes of a sequence of chunks, in order
RECURSIVE joined(_)
joined(chunks) ==
    IF chunks = <<>> THEN <<>> ELSE Head(chunks) \o joined(Tail(chunks))

\* C19: the bytes a read has taken from the queue are the bytes delivered to
\* data_received since the read began, in the order of delivery, and the
\* chunks in the queue followed by those whose put is still scheduled are the
\* bytes delivered after them: nothing lost, doubled or reordered.
C19_InboundOrder ==
    /\ joined(q) \o joined(putTasks) = SubSeq(stream, Consumed + 1, emitted)
    /\ \A c \in Callers :
          pc[c] = "reading" => data[c] = SubSeq(stream, readBase[c] + 1, Consumed)

\* three chunks were delivered: the read has taken the first, the second is in
\* the queue, the put of the third is still scheduled
C19_Witness ==
    \E c \in Callers :
        /\ pc[c] = "reading"
        /\ nchunks[c] = 1
        /\ data[c] # <<>>
        /\ Len(q) = 1
        /\ Len(putTasks) = 1

\* C20: the connected event goes from clear to set only, in a step that does
\* nothing else (connection_made), and a send issued after connection_lost
\* that leaves the connection gate resets both buffers and writes its frame.
C20_ConnectedOneWay ==
    [][/\ connected => connected'
       /\ connected' # connected
            => UNCHANGED <<now, lost, lockVars, callVars, readVars, wireVars, inVars>>
       /\ \A c \in Callers :
            (/\ pc[c] = "wait_conn"
             /\ pc'[c] # "wait_conn"
             /\ lost >= 0
             /\ callno[c] > lost)
               => /\ {"reset_output_buffer", "reset_input_buffer"} \subseteq io'[c]
                  /\ cmd[c] # None => nwrites' = nwrites + 1]_vars

\* a frame was written for a command issued after the port was closed
C20_Witness ==
    \E c \in Callers :
        /\ lost >= 0
        /\ callno[c] > lost
        /\ wseq[c] > 0
        /\ pc[c] = "returned"

\* C21: no call of a public operation of the asynchronous controller waits
\* for the lock of locked_coro while it holds that lock: a caller in line for
\* the lock is never its holder, whichever operation it called.
C21_NoSelfDeadlock ==
    \A c \in Callers : pc[c] = "wait_lock" => lockHolder # c

\* an operation that calls run_command holds the lock inside it, with a call
\* of set_volume in line behind it
C21_Witness ==
    \E c, d \in Callers :
        /\ req[c] \in HelperRequests
        /\ pc[c] = "wait_conn"
        /\ lockHolder = c
        /\ req[d].op = "set_volume"
        /\ pc[d] = "wait_lock"
        /\ lockWaiters = <<d>>

====
